---- MODULE Spec2Model ----
(***************************************************************************)
(* The /convertFile relay of UniConvert (Backend/api/index.js): one        *)
(* request driven through upload staging, validation, job creation, the    *)
(* two polling loops, the file push, output resolution and streaming.      *)
(* The conversion provider, the filesystem and the artifact stream are the *)
(* environment: every call returns one of the response shapes the code     *)
(* distinguishes, or fails.                                                *)
(*                                                                         *)
(* Spec is that one request. SpecDisconnect adds a client that closes its  *)
(* connection; SpecStaging runs several requests side by side over the     *)
(* shared uploadDir; SpecHome is the client's Home component               *)
(* (Frontend/src/components/Home.jsx) with its handleSubmit.               *)
(***************************************************************************)
EXTENDS Integers, Sequences, FiniteSets, TLC

VARIABLES
    pc,                      \* the await the handler is suspended at
    env,                     \* process.env: [CLOUDCONVERT_API_KEY]
    req,                     \* the request after upload.single: err, file, body
    fileExists,              \* the staged file is in uploadDir
    unlinkCalls,             \* fsp.unlink calls made on the staged path
    unlinkInFlight,          \* an fsp.unlink promise has not settled yet
    unlinkError,             \* console.error was handed an unlink failure
    cont,                    \* what the code does once the awaited unlink settles
    calls,                   \* provider calls made, per kind
    cloudConvertJobResponse, \* what the job-creation call returned
    jobId,                   \* cloudConvertJobResponse.data.data.id
    currentInitialAttempt,
    uploadTask,
    currentOverallAttempt,
    jobStatusResponse,
    exportFile,              \* exportTask.result.files[0]
    stream,                  \* fileResponse.data: state and chunks left
    res,                     \* the response to the client
    unhandled,               \* an exception escaped an async callback
    polled,                  \* the URLs of the status polls made
    sent,                    \* the provider calls made, with their credential
    currentJobStatusResponse, \* what the last upload-target poll returned
    cloudConvertApiError,    \* the rejection of a provider call that was caught
    clientConnected,         \* the client's connection is open
    now,                     \* Date.now()
    uploadDir,               \* the files of uploadDir: path -> whose bytes
    jobsCreated,             \* jobs the provider has created
    handlers,                \* concurrent runs of the handler, per request
    selectedFile,            \* Home: the file chosen in the file input
    convert,                 \* Home: the status message
    downloadError,           \* Home: the error message
    outputFormat,            \* Home: the format chosen
    isLoading,               \* Home: a conversion is under way
    submits,                 \* Home: calls of handleSubmit
    posts,                   \* Home: axios.post calls made by handleSubmit
    submission,              \* Home: where the running handleSubmit is
    downloads,               \* Home: the downloads started by link.click()
    inFlight                 \* Home: axios.post calls not yet settled

vars == <<pc, env, req, fileExists, unlinkCalls, unlinkInFlight, unlinkError,
          cont, calls, cloudConvertJobResponse, jobId, currentInitialAttempt, uploadTask, currentOverallAttempt,
          jobStatusResponse, exportFile, stream, res, unhandled, polled, sent,
          currentJobStatusResponse, cloudConvertApiError,
          clientConnected, now, uploadDir, jobsCreated, handlers,
          selectedFile, convert, downloadError, outputFormat, isLoading,
          submits, posts, submission, downloads, inFlight>>

\* the state of the Home component
homeVars ==
    <<selectedFile, convert, downloadError, outputFormat, isLoading,
      submits, posts, submission, downloads, inFlight>>

\* the scratch directory and the handler runs that share it
stagingVars == <<now, uploadDir, jobsCreated, handlers>>

\* what the single handler run never writes
others == <<clientConnected, stagingVars, homeVars>>

\* the single handler run and its client connection
relayVars ==
    <<pc, env, req, fileExists, unlinkCalls, unlinkInFlight, unlinkError,
      cont, calls, cloudConvertJobResponse, jobId, currentInitialAttempt,
      uploadTask, currentOverallAttempt, jobStatusResponse, exportFile,
      stream, res, unhandled, polled, sent, currentJobStatusResponse,
      cloudConvertApiError, clientConnected>>

-----------------------------------------------------------------------------
(* Values *)

UNDEF == "undefined"

initialPollAttempts == 120
maxOverallPollAttempts == 90

\* setTimeout(resolve, 1000) and setTimeout(resolve, 5000) of the two loops
uploadPollDelay == 1000
completionPollDelay == 5000

\* axios.post(conversionUrl, formData, { timeout: 300000 }) of the client
clientTimeout == 300000

\* Largest number of chunks the artifact stream delivers.
MaxChunks == 2

\* Largest value of the clock, in ms, and of Math.round(Math.random() * 1e9).
MaxNow == 1
MaxRandom == 1

\* Requests handled side by side.
MaxRequests == 2
RequestIds == 1..MaxRequests

\* Largest number of calls of the client's handleSubmit.
MaxSubmits == 3

Truthy(s) == s # UNDEF /\ s # ""

\* File names are sequences of characters.
OriginalNames ==
    { <<"r", ".", "d">>, <<"a", ".", "t", ".", "g">>, <<".", "e">>, <<"n">> }

OutputFormats == { UNDEF, "pdf" }

\* Index of the last "." of s, 0 when there is none.
RECURSIVE LastDot(_, _)
LastDot(s, i) ==
    IF i = 0 THEN 0
    ELSE IF s[i] = "." THEN i
    ELSE LastDot(s, i - 1)

\* path.extname of a base name
extname(s) ==
    LET d == LastDot(s, Len(s)) IN
    IF d <= 1 \/ s = <<".", ".">> THEN <<>> ELSE SubSeq(s, d, Len(s))

\* Index of the first "." of s from i on, 0 when there is none.
RECURSIVE FirstDot(_, _)
FirstDot(s, i) ==
    IF i > Len(s) THEN 0
    ELSE IF s[i] = "." THEN i
    ELSE FirstDot(s, i + 1)

\* the name cut at its first dot
fileNameToFirstDot(s) ==
    IF FirstDot(s, 1) = 0 THEN s ELSE SubSeq(s, 1, FirstDot(s, 1) - 1)

\* path.parse(s).name of a base name
fileNameWithoutExt(s) == SubSeq(s, 1, Len(s) - Len(extname(s)))

-----------------------------------------------------------------------------
(* Messages: sequences of string pieces, concatenated as the code does *)

MsgUploadFailed == <<"File upload failed.">>
MsgNoFile == <<"No file uploaded.">>
MsgNoFormat == <<"Output format is required.">>
MsgNoKey == <<"Server configuration error: CloudConvert API key missing.">>
MsgInvalidCreate ==
    <<"CloudConvert job creation failed or returned an invalid response.">>
MsgUploadUrl ==
    <<"Failed to get CloudConvert upload URL after multiple attempts. Please try again or check CloudConvert status.">>
MsgTimedOut == <<"File conversion timed out or failed on CloudConvert.">>
MsgNoExportUrl == <<"Could not retrieve converted file URL from CloudConvert.">>
MsgStreamError == <<"Error streaming converted file to client.">>
MsgUnknownJobError == "CloudConvert job failed with unknown error."
TypeErrorMessage == "Cannot read properties of undefined"

\* new Error(`CloudConvert Job ${jobId} failed: ${errorMessage}`).message
JobFailedMessage(id, providerMessage) ==
    <<"CloudConvert Job ", id, " failed: ",
      IF Truthy(providerMessage) THEN providerMessage ELSE MsgUnknownJobError>>

\* `Conversion service error: ${errorMessage}`
ServiceErrorMessage(errorMessage) ==
    <<"Conversion service error: ">> \o errorMessage

-----------------------------------------------------------------------------
(* Provider responses *)

\* An axios failure: error.response?.data?.message and error.message
AxiosErrors ==
    { [responseMessage |-> "Rate limit exceeded", message |-> "Request failed with status code 429"],
      [responseMessage |-> UNDEF, message |-> "Network Error"] }

\* no provider call has been rejected
NoApiError == [responseMessage |-> UNDEF, message |-> UNDEF]

\* the catch block's message without the look into the response
CaughtMessageOfException(e) == <<e.message>>

\* cloudConvertApiError.response?.data?.message || cloudConvertApiError.message
CaughtMessage(e) ==
    IF Truthy(e.responseMessage) THEN <<e.responseMessage>> ELSE <<e.message>>

Task(name, url, parameters, files) ==
    [name |-> name, url |-> url, parameters |-> parameters, files |-> files]

NoTask == Task(UNDEF, UNDEF, UNDEF, <<>>)

\* parameters: UNDEF (absent), {} or a non-empty set of keys, as strings
ParamNone == UNDEF
ParamEmpty == "{}"
ParamSome == "{key}"

UploadTasks ==
    { Task("upload-file", u, p, <<>>) :
        u \in {UNDEF, "", "https://upload"}, p \in {ParamNone, ParamEmpty, ParamSome} }

ExportFiles ==
    { [url |-> "https://artifact", mime |-> "application/pdf"],
      [url |-> "https://artifact", mime |-> UNDEF],
      [url |-> UNDEF, mime |-> "application/pdf"] }

NoFile == [url |-> UNDEF, mime |-> UNDEF]

ExportTasks ==
    { Task("export-file", UNDEF, UNDEF, <<>>) } \cup
    { Task("export-file", UNDEF, UNDEF, <<f>>) : f \in ExportFiles }

ConvertTask == Task("convert-file", UNDEF, UNDEF, <<>>)

\* A response body: data present, data.data present, then the job's fields.
Body(hasData, hasJob, id, status, message, hasTasks, tasks) ==
    [hasData |-> hasData, hasJob |-> hasJob, id |-> id, status |-> status,
     message |-> message, hasTasks |-> hasTasks, tasks |-> tasks]

NoBody == Body(FALSE, FALSE, UNDEF, UNDEF, UNDEF, FALSE, <<>>)
NoJob == Body(TRUE, FALSE, UNDEF, UNDEF, UNDEF, FALSE, <<>>)

CreateBodies ==
    { NoBody, NoJob,
      Body(TRUE, TRUE, UNDEF, "waiting", UNDEF, TRUE, <<>>),
      Body(TRUE, TRUE, "job-1", "waiting", UNDEF, TRUE, <<>>) }

UploadPollBodies ==
    { NoBody, NoJob,
      Body(TRUE, TRUE, "job-1", "waiting", UNDEF, FALSE, <<>>),
      Body(TRUE, TRUE, "job-1", "waiting", UNDEF, TRUE, <<ConvertTask>>) } \cup
    { Body(TRUE, TRUE, "job-1", "waiting", UNDEF, TRUE, <<ConvertTask, t>>) :
        t \in UploadTasks }

CompletionBodies ==
    { NoBody, NoJob,
      Body(TRUE, TRUE, "job-1", "processing", UNDEF, TRUE, <<ConvertTask>>),
      Body(TRUE, TRUE, "job-1", "error", "Invalid input file", TRUE, <<ConvertTask>>),
      Body(TRUE, TRUE, "job-1", "error", UNDEF, TRUE, <<ConvertTask>>),
      Body(TRUE, TRUE, "job-1", "finished", UNDEF, FALSE, <<>>),
      Body(TRUE, TRUE, "job-1", "finished", UNDEF, TRUE, <<ConvertTask>>) } \cup
    { Body(TRUE, TRUE, "job-1", "finished", UNDEF, TRUE, <<ConvertTask, t>>) :
        t \in ExportTasks }

\* The artifact: a sequence of at most MaxChunks chunks, each different.
Artifacts == { [i \in 1..n |-> i] : n \in 0..MaxChunks }

-----------------------------------------------------------------------------
(* The response object *)

NoRes ==
    [statusCode |-> 200, headersSent |-> FALSE, ended |-> FALSE,
     contentType |-> <<>>, contentDisposition |-> <<>>,
     message |-> <<>>, body |-> <<>>]

\* a json that leaves the status code as it is
jsonStatusLost(r, status, message) ==
    [r EXCEPT !.headersSent = TRUE, !.ended = TRUE,
              !.contentType = <<"application/json">>, !.message = message]

\* res.status(status).json({ message }) on a response whose headers are not
\* sent; json sets Content-Type only when the response has none yet
json(r, status, message) ==
    [r EXCEPT !.statusCode = status, !.headersSent = TRUE, !.ended = TRUE,
              !.contentType =
                  IF @ = <<>> THEN <<"application/json">> ELSE @,
              !.message = message]

\* res.setHeader('Content-Type', convertedMimeType || `application/${outputFormat}`)
ContentType(mime, format) ==
    IF Truthy(mime) THEN <<mime>> ELSE <<"application/", format>>

\* `attachment; filename="${fileNameWithoutExt}.${outputFormat}"`
ContentDisposition(originalname, format) ==
    <<"attachment; filename=", "\"">> \o fileNameWithoutExt(originalname)
        \o <<".", format, "\"">>

-----------------------------------------------------------------------------
(* Continuations of an awaited fsp.unlink *)

ContNone == [kind |-> "none", status |-> 0, message |-> <<>>]
ContRespond(status, message) ==
    [kind |-> "respond", status |-> status, message |-> message]
ContLog == [kind |-> "log", status |-> 0, message |-> <<>>]
ContStreamError == [kind |-> "streamError", status |-> 500, message |-> MsgStreamError]

NoCalls == [create |-> 0, uploadPoll |-> 0, push |-> 0, completionPoll |-> 0, fetch |-> 0]

NoReq == [err |-> FALSE, hasFile |-> FALSE, originalname |-> <<>>, outputFormat |-> UNDEF]

NoStream == [state |-> "none", left |-> <<>>, data |-> <<>>]

\* useState(null) of selectedFile, and files[0] of an emptied file input
NoSelection == [selected |-> FALSE, name |-> <<>>]

\* what axios.post rejected with: error.response (status, data), error.request
NoError ==
    [hasResponse |-> FALSE, status |-> UNDEF, isBlob |-> FALSE,
     isJson |-> FALSE, isObject |-> FALSE, message |-> UNDEF,
     hasRequest |-> FALSE, errorMessage |-> UNDEF]

\* no handleSubmit is running
NoSubmission ==
    [pc |-> "idle", file |-> NoSelection, outputFormat |-> UNDEF,
     error |-> NoError]

\* a handler run before its request has arrived
NoHandler ==
    [pc |-> "idle", originalname |-> <<>>, path |-> <<>>, jobId |-> <<>>,
     polled |-> {}, pushed |-> 0]

Init ==
    /\ pc = "multer"
    /\ env \in [CLOUDCONVERT_API_KEY : {UNDEF, "key"}]
    /\ req = NoReq
    /\ fileExists = FALSE
    /\ unlinkCalls = 0
    /\ unlinkInFlight = FALSE
    /\ unlinkError = FALSE
    /\ cont = ContNone
    /\ calls = NoCalls
    /\ cloudConvertJobResponse = [returned |-> FALSE, body |-> NoBody]
    /\ jobId = UNDEF
    /\ currentInitialAttempt = 0
    /\ uploadTask = NoTask
    /\ currentOverallAttempt = 0
    /\ jobStatusResponse = NoBody
    /\ exportFile = NoFile
    /\ stream = NoStream
    /\ res = NoRes
    /\ unhandled = FALSE
    /\ polled = {}
    /\ sent = {}
    /\ currentJobStatusResponse = NoBody
    /\ cloudConvertApiError = NoApiError
    /\ clientConnected = TRUE
    /\ now = 0
    /\ uploadDir = <<>>
    /\ jobsCreated = 0
    /\ handlers = [r \in RequestIds |-> NoHandler]
    /\ selectedFile = NoSelection
    /\ convert = <<>>
    /\ downloadError = <<>>
    /\ outputFormat = "pdf"
    /\ isLoading = FALSE
    /\ submits = 0
    /\ posts = 0
    /\ submission = NoSubmission
    /\ downloads = <<>>
    /\ inFlight = 0

\* await fsp.unlink(path).catch(console.error); then c
AwaitUnlink(c) ==
    /\ unlinkCalls' = unlinkCalls + 1
    /\ unlinkInFlight' = TRUE
    /\ cont' = c
    /\ pc' = "unlink"
    /\ UNCHANGED res

\* return res.status(status).json({ message }) without a deletion
Return(status, message) ==
    /\ res' = json(res, status, message)
    /\ pc' = "returned"
    /\ UNCHANGED <<unlinkCalls, unlinkInFlight, cont>>

\* the catch block without its cleanup
CatchInnerNoCleanup(errorMessage) ==
    Return(500, ServiceErrorMessage(errorMessage))

\* catch (cloudConvertApiError), lines 247-256
CatchInner(errorMessage) ==
    IF req.hasFile
    THEN AwaitUnlink(ContRespond(500, ServiceErrorMessage(errorMessage)))
    ELSE Return(500, ServiceErrorMessage(errorMessage))

\* an awaited provider call rejects with e: catch (cloudConvertApiError)
Rejected(e) ==
    /\ CatchInner(CaughtMessage(e))
    /\ cloudConvertApiError' = e

Requests ==
    [err : BOOLEAN, hasFile : BOOLEAN, originalname : OriginalNames,
     outputFormat : OutputFormats]

-----------------------------------------------------------------------------
(* Upload staging and validation *)

\* the validation without the file check
FileMissingNever(r) == FALSE

\* !req.file
FileMissing(r) == ~r.hasFile

\* the validation without the output-format check
FormatMissingNever(r) == FALSE

\* !outputFormat
FormatMissing(r) == ~Truthy(r.outputFormat)

\* the validation without the credential check
KeyMissingNever(e) == FALSE

\* !CLOUDCONVERT_API_KEY
KeyMissing(e) == ~Truthy(e.CLOUDCONVERT_API_KEY)

\* the validation with the credential check first
ValidationFailureKeyFirst(r, e) ==
    IF KeyMissing(e) THEN "key"
    ELSE IF FileMissing(r) THEN "file"
    ELSE IF FormatMissing(r) THEN "format"
    ELSE "none"

\* the early return the validation of lines 61-81 takes: the checks are
\* made in the order file, outputFormat, credential
ValidationFailure(r, e) ==
    IF FileMissing(r) THEN "file"
    ELSE IF FormatMissing(r) THEN "format"
    ELSE IF KeyMissing(e) THEN "key"
    ELSE "none"

\* a callback that takes every upload for a successful one
UploadErrorIgnored(r) == FALSE

\* if (err) of the callback of upload.single("file")
UploadError(r) == r.err

\* upload.single("file") calls back with an error
UploadFails ==
    /\ pc = "multer"
    /\ \E r \in Requests :
        /\ UploadError(r)
        /\ req' = r
        /\ fileExists' = r.hasFile
        /\ IF r.hasFile
           THEN /\ unlinkCalls' = unlinkCalls + 1
                /\ unlinkInFlight' = TRUE
           ELSE UNCHANGED <<unlinkCalls, unlinkInFlight>>
    /\ res' = json(res, 400, MsgUploadFailed)
    /\ pc' = "hung"
    /\ UNCHANGED <<cloudConvertJobResponse, unlinkError, env, cont, calls, jobId, currentInitialAttempt, uploadTask,
                   currentOverallAttempt, jobStatusResponse, exportFile, stream,
                   unhandled>>
    /\ UNCHANGED <<polled, sent, currentJobStatusResponse, cloudConvertApiError, others>>

\* upload.single("file") calls back without error: resolve()
UploadCompletes ==
    /\ pc = "multer"
    /\ \E r \in Requests :
        /\ ~UploadError(r)
        /\ req' = r
        /\ fileExists' = r.hasFile
    /\ pc' = "validate"
    /\ UNCHANGED <<cloudConvertJobResponse, unlinkError, env, unlinkCalls, unlinkInFlight, cont, calls, jobId,
                   currentInitialAttempt, uploadTask, currentOverallAttempt,
                   jobStatusResponse, exportFile, stream, res, unhandled>>
    /\ UNCHANGED <<polled, sent, currentJobStatusResponse, cloudConvertApiError, others>>

\* if (!req.file)
NoFileUploaded ==
    /\ pc = "validate"
    /\ ValidationFailure(req, env) = "file"
    /\ Return(400, MsgNoFile)
    /\ UNCHANGED <<cloudConvertJobResponse, unlinkError, env, req, fileExists, calls, jobId, currentInitialAttempt,
                   uploadTask, currentOverallAttempt, jobStatusResponse,
                   exportFile, stream, unhandled>>
    /\ UNCHANGED <<polled, sent, currentJobStatusResponse, cloudConvertApiError, others>>

\* if (!outputFormat)
OutputFormatMissing ==
    /\ pc = "validate"
    /\ ValidationFailure(req, env) = "format"
    /\ AwaitUnlink(ContRespond(400, MsgNoFormat))
    /\ UNCHANGED <<cloudConvertJobResponse, unlinkError, env, req, fileExists, calls, jobId, currentInitialAttempt,
                   uploadTask, currentOverallAttempt, jobStatusResponse,
                   exportFile, stream, unhandled>>
    /\ UNCHANGED <<polled, sent, currentJobStatusResponse, cloudConvertApiError, others>>

\* if (!CLOUDCONVERT_API_KEY)
ApiKeyMissing ==
    /\ pc = "validate"
    /\ ValidationFailure(req, env) = "key"
    /\ AwaitUnlink(ContRespond(500, MsgNoKey))
    /\ UNCHANGED <<cloudConvertJobResponse, unlinkError, env, req, fileExists, calls, jobId, currentInitialAttempt,
                   uploadTask, currentOverallAttempt, jobStatusResponse,
                   exportFile, stream, unhandled>>
    /\ UNCHANGED <<polled, sent, currentJobStatusResponse, cloudConvertApiError, others>>

\* validation passed: the handler reaches axios.post(.../v2/jobs)
Validated ==
    /\ pc = "validate"
    /\ ValidationFailure(req, env) = "none"
    /\ pc' = "create"
    /\ UNCHANGED <<cloudConvertJobResponse, unlinkError, env, req, fileExists, unlinkCalls, unlinkInFlight, cont, calls,
                   jobId, currentInitialAttempt, uploadTask, currentOverallAttempt,
                   jobStatusResponse, exportFile, stream, res, unhandled>>
    /\ UNCHANGED <<polled, sent, currentJobStatusResponse, cloudConvertApiError, others>>

-----------------------------------------------------------------------------
(* Job creation *)

Called(kind) == [calls EXCEPT ![kind] = @ + 1]

\* the headers a call is made with: its Authorization header, <<>> for none,
\* and its Content-Type
NoHeaders == [Authorization |-> <<>>, ContentType |-> <<>>]

\* headers: { 'Authorization': `Bearer ${CLOUDCONVERT_API_KEY}`,
\*            'Content-Type': 'application/json' }
CreateHeaders(key) ==
    [Authorization |-> <<"Bearer ", key>>,
     ContentType |-> <<"application/json">>]

\* a status poll made without the credential
StatusHeadersNoAuthorization(key) == NoHeaders

\* headers: { 'Authorization': `Bearer ${CLOUDCONVERT_API_KEY}` }
StatusHeaders(key) ==
    [Authorization |-> <<"Bearer ", key>>, ContentType |-> <<>>]

\* headers: { ...uploadForm.getHeaders(), 'Content-Type':
\*            `multipart/form-data; boundary=${uploadForm.getBoundary()}` }
uploadFormHeaders ==
    [Authorization |-> <<>>,
     ContentType |-> <<"multipart/form-data; boundary=", "boundary">>]

Sent(kind, headers) == [call |-> kind, headers |-> headers]

\* a status URL that leaves the job id out
JobUrlNoId(id) == <<"https://api.cloudconvert.com/v2/jobs/", UNDEF>>

\* `https://api.cloudconvert.com/v2/jobs/${jobId}`
JobUrl(id) == <<"https://api.cloudconvert.com/v2/jobs/", id>>

\* the response check without the id test
InvalidJobResponseNoIdTest(b) == ~b.hasData \/ ~b.hasJob

\* !data || !data.data || !data.data.id
InvalidJobResponse(b) == ~b.hasData \/ ~b.hasJob \/ ~Truthy(b.id)

\* axios.post('https://api.cloudconvert.com/v2/jobs', ...) and the id check
CreateJob ==
    /\ pc = "create"
    /\ calls' = Called("create")
    /\ sent' = sent \cup {Sent("create", CreateHeaders(env.CLOUDCONVERT_API_KEY))}
    /\ \/ \E e \in AxiosErrors :
            /\ Rejected(e)
            /\ UNCHANGED <<cloudConvertJobResponse, jobId>>
       \/ \E b \in CreateBodies :
            /\ cloudConvertJobResponse' = [returned |-> TRUE, body |-> b]
            /\ UNCHANGED cloudConvertApiError
            /\ IF InvalidJobResponse(b)
               THEN /\ AwaitUnlink(ContRespond(500, MsgInvalidCreate))
                    /\ UNCHANGED jobId
               ELSE /\ jobId' = b.id
                    /\ pc' = "uploadPoll"
                    /\ UNCHANGED <<unlinkCalls, unlinkInFlight, cont, res>>
    /\ UNCHANGED <<unlinkError, env, req, fileExists, currentInitialAttempt, uploadTask,
                   currentOverallAttempt, jobStatusResponse, exportFile, stream,
                   unhandled>>
    /\ UNCHANGED <<polled, currentJobStatusResponse, others>>

-----------------------------------------------------------------------------
(* Upload-target polling loop *)

\* data?.data?.tasks, <<>> when any link is absent
TasksOf(b) == IF b.hasData /\ b.hasJob /\ b.hasTasks THEN b.tasks ELSE <<>>

IsUploadTask(t) == t.name = "upload-file"

\* tasks.find(...): the first of the tasks at the indices hits, NoTask if none
find(tasks, hits) ==
    IF hits = {} THEN NoTask
    ELSE tasks[CHOOSE i \in hits : \A j \in hits : i <= j]

\* tasks.find(task => task.name === 'upload-file')
findUploadTask(tasks) ==
    find(tasks, { i \in 1..Len(tasks) : IsUploadTask(tasks[i]) })

hasUrl(t) == t.url # UNDEF /\ t.url # ""

\* the parameter test without the count of keys
hasParamsNotNull(t) == t.parameters # ParamNone

\* typeof parameters === 'object' && parameters !== null && keys.length > 0
hasParams(t) == t.parameters # ParamNone /\ t.parameters # ParamEmpty

\* the test without the parameter check
UploadTargetReadyUrlOnly(t) == t # NoTask /\ hasUrl(t)

\* the loop's test for leaving with the task
UploadTargetReady(t) == t # NoTask /\ hasUrl(t) /\ hasParams(t)

\* the loop test off by one
UploadLoopOneMore(attempt, task) ==
    attempt <= initialPollAttempts /\ task = NoTask

\* while (currentInitialAttempt < initialPollAttempts && !uploadTask)
UploadLoopContinues(attempt, task) ==
    attempt < initialPollAttempts /\ task = NoTask

\* one iteration: sleep 1 s, GET the job, look for the upload target
UploadTargetPoll ==
    /\ pc = "uploadPoll"
    /\ UploadLoopContinues(currentInitialAttempt, uploadTask)
    /\ calls' = Called("uploadPoll")
    /\ sent' = sent \cup {Sent("uploadPoll", StatusHeaders(env.CLOUDCONVERT_API_KEY))}
    /\ polled' = polled \cup {JobUrl(jobId)}
    /\ \/ \E e \in AxiosErrors :
            /\ Rejected(e)
            /\ UNCHANGED <<currentInitialAttempt, uploadTask,
                           currentJobStatusResponse>>
       \/ \E b \in UploadPollBodies :
            /\ currentJobStatusResponse' = b
            /\ UNCHANGED cloudConvertApiError
            /\ LET tempUploadTask == findUploadTask(TasksOf(b)) IN
               IF UploadTargetReady(tempUploadTask)
               THEN /\ uploadTask' = tempUploadTask
                    /\ pc' = "push"
                    /\ UNCHANGED <<currentInitialAttempt, unlinkCalls,
                                   unlinkInFlight, cont, res>>
               ELSE /\ currentInitialAttempt' = currentInitialAttempt + 1
                    /\ UNCHANGED uploadTask
                    /\ IF UploadLoopContinues(currentInitialAttempt + 1, uploadTask)
                       THEN /\ pc' = "uploadPoll"
                            /\ UNCHANGED <<unlinkCalls, unlinkInFlight, cont, res>>
                       ELSE AwaitUnlink(ContRespond(500, MsgUploadUrl))
    /\ UNCHANGED <<cloudConvertJobResponse, unlinkError, env, req, fileExists, jobId, currentOverallAttempt,
                   jobStatusResponse, exportFile, stream, unhandled>>
    /\ UNCHANGED others

-----------------------------------------------------------------------------
(* File push *)

\* axios.post(uploadTask.result.form.url, uploadForm, ...)
PushFile ==
    /\ pc = "push"
    /\ calls' = Called("push")
    /\ sent' = sent \cup {Sent("push", uploadFormHeaders)}
    /\ \/ \E e \in AxiosErrors : Rejected(e)
       \/ /\ pc' = "completionPoll"
          /\ UNCHANGED <<unlinkCalls, unlinkInFlight, cont, res,
                         cloudConvertApiError>>
    /\ UNCHANGED <<cloudConvertJobResponse, unlinkError, env, req, fileExists, jobId, currentInitialAttempt, uploadTask,
                   currentOverallAttempt, jobStatusResponse, exportFile, stream,
                   unhandled>>
    /\ UNCHANGED <<polled, currentJobStatusResponse, others>>

-----------------------------------------------------------------------------
(* Completion polling loop and output resolution *)

IsExportTask(t) == t.name = "export-file" /\ Len(t.files) > 0

\* tasks.find(task => task.name === 'export-file' && ... files.length > 0)
findExportTask(tasks) ==
    find(tasks, { i \in 1..Len(tasks) : IsExportTask(tasks[i]) })

\* the check without the test of the URL
ExportUrlMissingNoUrlTest(exportTask) == exportTask = NoTask

\* !exportTask || !exportTask.result.files[0] || !exportTask.result.files[0].url
ExportUrlMissing(exportTask) ==
    exportTask = NoTask \/ ~Truthy(exportTask.files[1].url)

\* lines 209-223, after the loop has been left with last response b:
\* the finished check, then the export task's first file
AfterCompletionLoop(b) ==
    IF ~b.hasData \/ ~b.hasJob
    THEN \* jobStatusResponse.data.data.status reads a property of undefined
         /\ CatchInner(<<TypeErrorMessage>>)
         /\ UNCHANGED exportFile
    ELSE IF b.status # "finished"
    THEN /\ AwaitUnlink(ContRespond(500, MsgTimedOut))
         /\ UNCHANGED exportFile
    ELSE IF ~b.hasTasks
    THEN \* jobStatusResponse.data.data.tasks.find on undefined
         /\ CatchInner(<<TypeErrorMessage>>)
         /\ UNCHANGED exportFile
    ELSE LET exportTask == findExportTask(b.tasks) IN
         IF ExportUrlMissing(exportTask)
         THEN /\ AwaitUnlink(ContRespond(500, MsgNoExportUrl))
              /\ UNCHANGED exportFile
         ELSE /\ exportFile' = exportTask.files[1]
              /\ pc' = "fetch"
              /\ UNCHANGED <<unlinkCalls, unlinkInFlight, cont, res>>

\* the loop without the finished test
JobFinishedNever(b) == FALSE

\* jobStatus === 'finished', under if (data && data.data)
JobFinished(b) == b.hasData /\ b.hasJob /\ b.status = "finished"

\* the loop without the error test
JobErroredNever(b) == FALSE

\* jobStatus === 'error', under if (data && data.data)
JobErrored(b) == b.hasData /\ b.hasJob /\ b.status = "error"

\* while (currentOverallAttempt < maxOverallPollAttempts)
CompletionLoopContinues(attempt) == attempt < maxOverallPollAttempts

\* one iteration: sleep 5 s, GET the job, look at its status
CompletionPoll ==
    /\ pc = "completionPoll"
    /\ CompletionLoopContinues(currentOverallAttempt)
    /\ calls' = Called("completionPoll")
    /\ sent' = sent \cup {Sent("completionPoll", StatusHeaders(env.CLOUDCONVERT_API_KEY))}
    /\ polled' = polled \cup {JobUrl(jobId)}
    /\ \/ \E e \in AxiosErrors :
            /\ Rejected(e)
            /\ UNCHANGED <<currentOverallAttempt, jobStatusResponse, exportFile>>
       \/ \E b \in CompletionBodies :
            /\ jobStatusResponse' = b
            /\ UNCHANGED cloudConvertApiError
            /\ IF JobFinished(b)
               THEN /\ AfterCompletionLoop(b)
                    /\ UNCHANGED currentOverallAttempt
               ELSE IF JobErrored(b)
               THEN /\ CatchInner(JobFailedMessage(jobId, b.message))
                    /\ UNCHANGED <<currentOverallAttempt, exportFile>>
               ELSE /\ currentOverallAttempt' = currentOverallAttempt + 1
                    /\ IF CompletionLoopContinues(currentOverallAttempt + 1)
                       THEN /\ pc' = "completionPoll"
                            /\ UNCHANGED <<unlinkCalls, unlinkInFlight, cont,
                                           res, exportFile>>
                       ELSE AfterCompletionLoop(b)
    /\ UNCHANGED <<cloudConvertJobResponse, unlinkError, env, req, fileExists, jobId, currentInitialAttempt, uploadTask,
                   stream, unhandled>>
    /\ UNCHANGED <<currentJobStatusResponse, others>>

-----------------------------------------------------------------------------
(* Artifact fetch and streaming *)

\* axios.get(fileUrl, { responseType: 'stream' }), setHeader x2, pipe, on x2
FetchArtifact ==
    /\ pc = "fetch"
    /\ calls' = Called("fetch")
    /\ sent' = sent \cup {Sent("fetch", NoHeaders)}
    /\ \/ \E e \in AxiosErrors :
            /\ Rejected(e)
            /\ UNCHANGED stream
       \/ \E a \in Artifacts :
            /\ UNCHANGED cloudConvertApiError
            /\ stream' = [state |-> "flowing", left |-> a, data |-> a]
            /\ res' = [res EXCEPT
                 !.contentType = ContentType(exportFile.mime, req.outputFormat),
                 !.contentDisposition =
                     ContentDisposition(req.originalname, req.outputFormat)]
            /\ pc' = "returned"
            /\ UNCHANGED <<unlinkCalls, unlinkInFlight, cont>>
    /\ UNCHANGED <<cloudConvertJobResponse, unlinkError, env, req, fileExists, jobId, currentInitialAttempt, uploadTask,
                   currentOverallAttempt, jobStatusResponse, exportFile, unhandled>>
    /\ UNCHANGED <<polled, currentJobStatusResponse, others>>

\* pipe: a chunk of the artifact is written to res; on a response whose
\* connection is closed the write returns false and pipe pauses the source
StreamData ==
    /\ stream.state = "flowing"
    /\ stream.left # <<>>
    /\ IF clientConnected
       THEN /\ stream' = [stream EXCEPT !.left = Tail(@)]
            /\ res' = [res EXCEPT !.headersSent = TRUE,
                                  !.body = Append(@, Head(stream.left))]
       ELSE /\ stream' = [stream EXCEPT !.state = "paused"]
            /\ UNCHANGED res
    /\ UNCHANGED <<cloudConvertJobResponse, unlinkError, pc, env, req, fileExists, unlinkCalls, unlinkInFlight, cont,
                   calls, jobId, currentInitialAttempt, uploadTask,
                   currentOverallAttempt, jobStatusResponse, exportFile, unhandled>>
    /\ UNCHANGED <<polled, sent, currentJobStatusResponse, cloudConvertApiError, others>>

\* 'end': pipe ends res, then the listener of line 236 deletes the staged file
StreamEnd ==
    /\ stream.state = "flowing"
    /\ stream.left = <<>>
    /\ stream' = [stream EXCEPT !.state = "ended"]
    /\ res' = [res EXCEPT !.headersSent = TRUE, !.ended = TRUE]
    /\ unlinkCalls' = unlinkCalls + 1
    /\ unlinkInFlight' = TRUE
    /\ cont' = ContLog
    /\ UNCHANGED <<cloudConvertJobResponse, unlinkError, pc, env, req, fileExists, calls, jobId, currentInitialAttempt,
                   uploadTask, currentOverallAttempt, jobStatusResponse,
                   exportFile, unhandled>>
    /\ UNCHANGED <<polled, sent, currentJobStatusResponse, cloudConvertApiError, others>>

\* 'error': the listener of line 241 deletes the staged file, then responds
StreamError ==
    /\ stream.state \in {"flowing", "paused"}
    /\ stream' = [stream EXCEPT !.state = "errored"]
    /\ unlinkCalls' = unlinkCalls + 1
    /\ unlinkInFlight' = TRUE
    /\ cont' = ContStreamError
    /\ UNCHANGED <<cloudConvertJobResponse, unlinkError, pc, env, req, fileExists, calls, jobId, currentInitialAttempt,
                   uploadTask, currentOverallAttempt, jobStatusResponse,
                   exportFile, res, unhandled>>
    /\ UNCHANGED <<polled, sent, currentJobStatusResponse, cloudConvertApiError, others>>

-----------------------------------------------------------------------------
(* fsp.unlink settles; .catch(console.error) swallows a failure *)

\* an unlink without its catch: a failure reaches the outer catch block,
\* which answers with the failure's message
NotSwallowed(c, deleted) ==
    IF deleted \/ c.kind # "respond"
    THEN c
    ELSE ContRespond(500, <<"ENOENT: no such file or directory, unlink">>)

\* a response that lets json write whatever was sent before
HeadersAlreadySentIgnored(r) == FALSE

\* res.json -> res.send -> res.set throws ERR_HTTP_HEADERS_SENT once the
\* headers of the response are sent
HeadersAlreadySent(r) == r.headersSent

\* .catch(console.error): the code after the await runs as after a success
Swallowed(c, deleted) == c

UnlinkSettles ==
    /\ unlinkInFlight
    /\ unlinkInFlight' = FALSE
    /\ pc' = IF pc = "unlink" THEN "returned" ELSE pc
    /\ cont' = ContNone
    /\ \E deleted \in BOOLEAN :
        /\ fileExists' = (fileExists /\ ~deleted)
        /\ unlinkError' = (unlinkError \/ ~deleted)
        /\ LET then == Swallowed(cont, deleted) IN
           CASE then.kind = "respond" ->
                  /\ res' = json(res, then.status, then.message)
                  /\ UNCHANGED unhandled
             [] then.kind = "streamError" ->
                  \* res.status(500).json(...) throws once the headers are sent
                  IF HeadersAlreadySent(res)
                  THEN /\ unhandled' = TRUE
                       /\ UNCHANGED res
                  ELSE /\ res' = json(res, then.status, then.message)
                       /\ UNCHANGED unhandled
             [] OTHER -> UNCHANGED <<res, unhandled>>
    /\ UNCHANGED <<cloudConvertJobResponse, env, req, unlinkCalls, calls, jobId, currentInitialAttempt,
                   uploadTask, currentOverallAttempt, jobStatusResponse,
                   exportFile, stream>>
    /\ UNCHANGED <<polled, sent, currentJobStatusResponse, cloudConvertApiError, others>>

-----------------------------------------------------------------------------
(* The client closes its connection before the response has ended. The     *)
(* handler listens to no 'close' or 'aborted' event: only pipe does, which  *)
(* unpipes res and pauses the artifact stream.                              *)

\* a disconnection that ends a handler found in a polling loop
ClientDisconnectAborts ==
    /\ clientConnected
    /\ pc # "multer"
    /\ ~res.ended
    /\ clientConnected' = FALSE
    /\ stream' = IF stream.state = "flowing"
                 THEN [stream EXCEPT !.state = "paused"]
                 ELSE stream
    /\ pc' = IF pc \in {"uploadPoll", "completionPoll"} THEN "returned" ELSE pc
    /\ UNCHANGED <<env, req, fileExists, unlinkCalls, unlinkInFlight,
                   unlinkError, cont, calls, cloudConvertJobResponse, jobId,
                   currentInitialAttempt, uploadTask, currentOverallAttempt,
                   jobStatusResponse, exportFile, res, unhandled, polled, sent,
                   currentJobStatusResponse, cloudConvertApiError,
                   stagingVars, homeVars>>

ClientDisconnect ==
    /\ clientConnected
    /\ pc # "multer"
    /\ ~res.ended
    /\ clientConnected' = FALSE
    /\ stream' = IF stream.state = "flowing"
                 THEN [stream EXCEPT !.state = "paused"]
                 ELSE stream
    /\ UNCHANGED <<pc, env, req, fileExists, unlinkCalls, unlinkInFlight,
                   unlinkError, cont, calls, cloudConvertJobResponse, jobId,
                   currentInitialAttempt, uploadTask, currentOverallAttempt,
                   jobStatusResponse, exportFile, res, unhandled, polled, sent,
                   currentJobStatusResponse, cloudConvertApiError,
                   stagingVars, homeVars>>

-----------------------------------------------------------------------------

Next ==
    \/ UploadFails
    \/ UploadCompletes
    \/ NoFileUploaded
    \/ OutputFormatMissing
    \/ ApiKeyMissing
    \/ Validated
    \/ CreateJob
    \/ UploadTargetPoll
    \/ PushFile
    \/ CompletionPoll
    \/ FetchArtifact
    \/ StreamData
    \/ StreamEnd
    \/ StreamError
    \/ UnlinkSettles

Spec == Init /\ [][Next]_vars

\* the relay with a client that may close its connection
NextDisconnect ==
    \/ Next
    \/ ClientDisconnect

SpecDisconnect == Init /\ [][NextDisconnect]_vars

\* the client closes its connection while the handler is in one of the two
\* polling loops (lines 122-153, 186-207)
ClientDisconnectWhilePolling ==
    /\ pc \in {"uploadPoll", "completionPoll"}
    /\ ClientDisconnect

NextDisconnectPolling ==
    \/ Next
    \/ ClientDisconnectWhilePolling

SpecDisconnectPolling == Init /\ [][NextDisconnectPolling]_vars

-----------------------------------------------------------------------------
(* Several requests in one relay process. Each run of the handler is cut   *)
(* at the awaits where another run can take a turn; what the runs share is *)
(* uploadDir and the clock.                                                *)

\* `upload-${Date.now()}-${Math.round(Math.random() * 1e9)}${fileExtension}`
StagedName(ts, random, originalname) ==
    <<"upload-", ts, "-", random>> \o extname(originalname)

\* fs: the directory with the file at path written (created or truncated)
WriteFile(dir, path, bytes) ==
    [q \in DOMAIN dir \cup {path} |-> IF q = path THEN bytes ELSE dir[q]]

\* fs: the directory with the file at path removed
RemoveFile(dir, path) == [q \in DOMAIN dir \ {path} |-> dir[q]]

\* the clock advances
Tick ==
    /\ now < MaxNow
    /\ now' = now + 1
    /\ UNCHANGED <<uploadDir, jobsCreated, handlers, relayVars, homeVars>>

\* upload.single("file"): the name is generated, the bytes are written
Stage(r) ==
    /\ handlers[r].pc = "idle"
    /\ \E name \in {<<"r", ".", "d">>, <<"n">>}, random \in 0..MaxRandom :
        LET path == StagedName(now, random, name) IN
        /\ uploadDir' = WriteFile(uploadDir, path, r)
        /\ handlers' = [handlers EXCEPT ![r].pc = "create",
                                        ![r].originalname = name,
                                        ![r].path = path]
    /\ UNCHANGED <<now, jobsCreated, relayVars, homeVars>>

\* axios.post(.../v2/jobs): the provider creates a job with an id of its own
CreateJobOf(r) ==
    /\ handlers[r].pc = "create"
    /\ jobsCreated' = jobsCreated + 1
    /\ handlers' = [handlers EXCEPT ![r].pc = "poll",
                                    ![r].jobId = <<"job-", jobsCreated + 1>>]
    /\ UNCHANGED <<now, uploadDir, relayVars, homeVars>>

\* a status poll of either loop: axios.get(.../v2/jobs/${jobId})
PollOf(r) ==
    /\ \/ /\ handlers[r].pc = "poll"
          /\ handlers' = [handlers EXCEPT ![r].pc = "push",
                              ![r].polled = @ \cup {handlers[r].jobId}]
       \/ /\ handlers[r].pc = "wait"
          /\ handlers' = [handlers EXCEPT ![r].pc = "unlink",
                              ![r].polled = @ \cup {handlers[r].jobId}]
    /\ UNCHANGED <<now, uploadDir, jobsCreated, relayVars, homeVars>>

\* fs.createReadStream(inputFilePath) sent to the upload target; a missing
\* file fails the call and the catch block takes over
PushOf(r) ==
    /\ handlers[r].pc = "push"
    /\ handlers' =
         IF handlers[r].path \in DOMAIN uploadDir
         THEN [handlers EXCEPT ![r].pc = "wait",
                               ![r].pushed = uploadDir[handlers[r].path]]
         ELSE [handlers EXCEPT ![r].pc = "unlink"]
    /\ UNCHANGED <<now, uploadDir, jobsCreated, relayVars, homeVars>>

\* a provider call fails: catch (cloudConvertApiError)
FailOf(r) ==
    /\ handlers[r].pc \in {"create", "poll", "push", "wait"}
    /\ handlers' = [handlers EXCEPT ![r].pc = "unlink"]
    /\ UNCHANGED <<now, uploadDir, jobsCreated, relayVars, homeVars>>

\* fsp.unlink(inputFilePath).catch(console.error)
UnlinkOf(r) ==
    /\ handlers[r].pc = "unlink"
    /\ uploadDir' = RemoveFile(uploadDir, handlers[r].path)
    /\ handlers' = [handlers EXCEPT ![r].pc = "done"]
    /\ UNCHANGED <<now, jobsCreated, relayVars, homeVars>>

NextStaging ==
    \/ Tick
    \/ \E r \in RequestIds : Stage(r)
    \/ \E r \in RequestIds : CreateJobOf(r)
    \/ \E r \in RequestIds : PollOf(r)
    \/ \E r \in RequestIds : PushOf(r)
    \/ \E r \in RequestIds : FailOf(r)
    \/ \E r \in RequestIds : UnlinkOf(r)

SpecStaging == Init /\ [][NextStaging]_vars

-----------------------------------------------------------------------------
(* The client: the Home component (Frontend/src/components/Home.jsx)       *)

SelectableFiles ==
    { [selected |-> TRUE, name |-> <<"r", ".", "d">>],
      [selected |-> TRUE, name |-> <<".", "e">>] }

MsgSelectFile == <<"Please select a file.">>
MsgConverting == <<"Converting file, please wait...">>
MsgConverted == <<"File Converted Successfully!">>
MsgNetworkError ==
    <<"Network error or server is unreachable. Please check your connection.">>

\* `Error: ${errorData.message || 'Unknown server error.'}`
ServerErrorText(message) ==
    <<"Error: ", IF Truthy(message) THEN message ELSE "Unknown server error.">>

\* `Error occurred (Status: ${error.response.status}). Could not parse error details.`
ParseFailedText(status) ==
    <<"Error occurred (Status: ", status, "). Could not parse error details.">>

ReadFailedText(status) ==
    <<"Error occurred (Status: ", status, "). Could not read error details.">>

ProcessFailedText(status) ==
    <<"Error occurred (Status: ", status, "). Failed to process error response.">>

\* `An unexpected client-side error occurred: ${error.message}`
ClientErrorText(message) ==
    <<"An unexpected client-side error occurred: ", message>>

\* error.response of a rejected post: the status and what the blob holds
ErrorResponse(status, isBlob, isJson, isObject, message) ==
    [hasResponse |-> TRUE, status |-> status, isBlob |-> isBlob,
     isJson |-> isJson, isObject |-> isObject, message |-> message,
     hasRequest |-> TRUE, errorMessage |-> "Request failed"]

\* the errors axios.post rejects with
PostErrors ==
    { ErrorResponse("400", TRUE, TRUE, TRUE, "No file uploaded."),
      ErrorResponse("500", TRUE, TRUE, TRUE, "Error streaming converted file to client."),
      ErrorResponse("500", TRUE, TRUE, TRUE, UNDEF),
      ErrorResponse("500", TRUE, TRUE, TRUE, ""),
      ErrorResponse("500", TRUE, TRUE, FALSE, UNDEF),
      ErrorResponse("504", TRUE, FALSE, FALSE, UNDEF),
      ErrorResponse("500", FALSE, FALSE, FALSE, UNDEF),
      [NoError EXCEPT !.hasRequest = TRUE,
                      !.errorMessage = "timeout of 300000ms exceeded"],
      [NoError EXCEPT !.hasRequest = TRUE, !.errorMessage = "Network Error"],
      [NoError EXCEPT !.errorMessage = "Invalid URL"] }

\* the classification that takes no error for a server response
HasResponseNever(e) == FALSE

\* if (error.response)
HasResponse(e) == e.hasResponse

\* else if (error.request)
HasRequest(e) == e.hasRequest

\* reader.onload: JSON.parse(reader.result), errorData.message; a text that
\* is not JSON, or the JSON null, throws into the catch of line 133
OnLoadText(e) ==
    IF e.isJson /\ e.isObject
    THEN ServerErrorText(e.message)
    ELSE ParseFailedText(e.status)

\* a button that stays enabled while a conversion is under way
ButtonDisabledWithoutFileOnly == ~selectedFile.selected

\* disabled={!selectedFile || isLoading} of the convert button
ButtonDisabled == ~selectedFile.selected \/ isLoading

\* a handleSubmit that takes every call for one with a file
NoFileSelectedNever(f) == FALSE

\* if (!selectedFile)
NoFileSelected(f) == ~f.selected

\* handleFileChange: a file is chosen, or the input is emptied
handleFileChange ==
    /\ selectedFile' \in SelectableFiles \cup {NoSelection}
    /\ selectedFile' # selectedFile
    /\ convert' = <<>>
    /\ downloadError' = <<>>
    /\ UNCHANGED <<outputFormat, isLoading, submits, posts, submission,
                   downloads, inFlight, relayVars, stagingVars>>

handleOutputFormatChange ==
    /\ outputFormat' \in {"pdf", "docx"}
    /\ outputFormat' # outputFormat
    /\ UNCHANGED <<selectedFile, convert, downloadError, isLoading, submits,
                   posts, submission, downloads, inFlight, relayVars,
                   stagingVars>>

\* handleSubmit up to its await of axios.post: called by a click on the
\* enabled button, or by any other caller while no file is selected
handleSubmit ==
    /\ submits < MaxSubmits
    /\ ~ButtonDisabled \/ ~selectedFile.selected
    /\ submits' = submits + 1
    /\ IF NoFileSelected(selectedFile)
       THEN /\ convert' = MsgSelectFile
            /\ UNCHANGED <<downloadError, isLoading, posts, submission,
                           inFlight>>
       ELSE /\ isLoading' = TRUE
            /\ convert' = MsgConverting
            /\ downloadError' = <<>>
            /\ posts' = posts + 1
            /\ inFlight' = inFlight + 1
            /\ submission' = [pc |-> "posted", file |-> selectedFile,
                              outputFormat |-> outputFormat, error |-> NoError]
    /\ UNCHANGED <<selectedFile, outputFormat, downloads, relayVars,
                   stagingVars>>

\* selectedFile.name.replace(/\.[^/.]+$/, ""): the last dot and what follows
\* it are cut when at least one character follows and none of them is "/"
clientFileNameWithoutExt(name) ==
    LET d == LastDot(name, Len(name)) IN
    IF /\ d >= 1
       /\ d < Len(name)
       /\ \A i \in (d + 1)..Len(name) : name[i] # "/"
    THEN SubSeq(name, 1, d - 1)
    ELSE name

\* the post resolves: the download is offered under the name made of the
\* file and the format handleSubmit was called with, the form is reset;
\* finally
PostResolves ==
    /\ submission.pc = "posted"
    /\ downloads' = Append(downloads,
            [download |-> clientFileNameWithoutExt(submission.file.name)
                             \o <<".", submission.outputFormat>>,
             file |-> submission.file.name,
             outputFormat |-> submission.outputFormat])
    /\ selectedFile' = NoSelection
    /\ downloadError' = <<>>
    /\ convert' = MsgConverted
    /\ outputFormat' = "pdf"
    /\ isLoading' = FALSE
    /\ submission' = [submission EXCEPT !.pc = "idle"]
    /\ inFlight' = inFlight - 1
    /\ UNCHANGED <<submits, posts, relayVars, stagingVars>>

\* the post rejects: catch (error), lines 115-158, and finally
PostRejects ==
    /\ submission.pc = "posted"
    /\ inFlight' = inFlight - 1
    /\ \E e \in PostErrors :
        IF HasResponse(e) /\ e.isBlob
        THEN \* await new Promise(... reader.readAsText(error.response.data))
             /\ submission' = [submission EXCEPT !.pc = "reading", !.error = e]
             /\ UNCHANGED <<downloadError, convert, isLoading>>
        ELSE /\ downloadError' =
                  IF HasResponse(e) THEN ProcessFailedText(e.status)
                  ELSE IF HasRequest(e) THEN MsgNetworkError
                  ELSE ClientErrorText(e.errorMessage)
             /\ convert' = <<>>
             /\ isLoading' = FALSE
             /\ submission' = [submission EXCEPT !.pc = "idle", !.error = e]
    /\ UNCHANGED <<selectedFile, outputFormat, submits, posts, downloads,
                   relayVars, stagingVars>>

\* the FileReader calls onload or onerror; then setConvert(""), finally
ReaderSettles ==
    /\ submission.pc = "reading"
    /\ \E loaded \in BOOLEAN :
        downloadError' =
            IF loaded THEN OnLoadText(submission.error)
            ELSE ReadFailedText(submission.error.status)
    /\ convert' = <<>>
    /\ isLoading' = FALSE
    /\ submission' = [submission EXCEPT !.pc = "idle"]
    /\ UNCHANGED <<selectedFile, outputFormat, submits, posts, downloads,
                   inFlight, relayVars, stagingVars>>

NextHome ==
    \/ handleFileChange
    \/ handleOutputFormatChange
    \/ handleSubmit
    \/ PostResolves
    \/ PostRejects
    \/ ReaderSettles

SpecHome == Init /\ [][NextHome]_vars

-----------------------------------------------------------------------------
(* Properties *)

\* the response has been started
Responded == res.headersSent

\* nothing of the request is left to run
Terminated ==
    /\ ~unlinkInFlight
    /\ \/ pc = "hung"
       \/ pc = "returned" /\ stream.state # "flowing"

\* one deletion was made and has settled; the file is gone unless unlink failed
DeletedOnce ==
    /\ unlinkCalls = 1
    /\ ~unlinkInFlight
    /\ fileExists => unlinkError

OnlyCreateCalled == calls = [NoCalls EXCEPT !.create = 1]

\* C1: a request that staged a file never has two deletions of it, and has
\* exactly one when it has terminated (response sent, stream ended or errored,
\* deletion settled), whichever path terminated it.
StagedFileDeletedExactlyOnce ==
    /\ unlinkCalls <= 1
    /\ (Terminated /\ req.hasFile) => unlinkCalls = 1

StagedFileDeletedAfterStreamError ==
    /\ Terminated
    /\ req.hasFile
    /\ stream.state = "errored"
    /\ unlinkCalls = 1

\* C2: a request without a file makes no provider call and ends with 400.
NoFileNoProviderCall ==
    (pc # "multer" /\ ~req.hasFile) =>
        /\ calls = NoCalls
        /\ Responded => res.statusCode = 400
        /\ Terminated => res.ended

NoFileAnswered ==
    /\ ~req.hasFile
    /\ ~req.err
    /\ pc = "returned"
    /\ res.statusCode = 400
    /\ res.message = MsgNoFile

\* C3: a request whose upload was staged and that has no outputFormat makes
\* no provider call, and its 400 response is sent only after the one deletion
\* of the staged file has settled.
NoFormatDeletedThen400 ==
    (pc # "multer" /\ ~req.err /\ req.hasFile /\ req.outputFormat \in {UNDEF, ""}) =>
        /\ calls = NoCalls
        /\ Responded =>
            /\ res.statusCode = 400
            /\ res.message = MsgNoFormat
            /\ DeletedOnce
        /\ Terminated => res.ended

NoFormatAnswered ==
    /\ ~req.err
    /\ req.hasFile
    /\ req.outputFormat \in {UNDEF, ""}
    /\ res.ended
    /\ res.statusCode = 400
    /\ ~fileExists

\* C4: with the credential absent, a staged request that has an outputFormat
\* makes no provider call, and its 500 configuration error is sent only after
\* the one deletion of the staged file has settled.
NoKeyDeletedThen500 ==
    (pc # "multer" /\ ~req.err /\ req.hasFile /\ req.outputFormat \notin {UNDEF, ""}
        /\ env.CLOUDCONVERT_API_KEY \in {UNDEF, ""}) =>
        /\ calls = NoCalls
        /\ Responded =>
            /\ res.statusCode = 500
            /\ res.message = MsgNoKey
            /\ DeletedOnce
        /\ Terminated => res.ended

NoKeyAnswered ==
    /\ ~req.err
    /\ req.hasFile
    /\ req.outputFormat = "pdf"
    /\ env.CLOUDCONVERT_API_KEY = UNDEF
    /\ res.ended
    /\ res.statusCode = 500
    /\ ~fileExists

\* C5: when the job-creation response has no body, no data or no id, the only
\* provider call of the request is the creation, and the response is the 500
\* of the invalid-response check, sent after the deletion of the staged file.
NoJobIdFails ==
    (/\ cloudConvertJobResponse.returned
     /\ \/ ~cloudConvertJobResponse.body.hasData
        \/ ~cloudConvertJobResponse.body.hasJob
        \/ cloudConvertJobResponse.body.id \in {UNDEF, ""}) =>
        /\ OnlyCreateCalled
        /\ pc \in {"unlink", "returned"}
        /\ Responded =>
            /\ res.statusCode = 500
            /\ res.message = MsgInvalidCreate
            /\ DeletedOnce
        /\ Terminated => res.ended

NoJobIdAnswered ==
    /\ cloudConvertJobResponse.returned
    /\ cloudConvertJobResponse.body.hasJob
    /\ cloudConvertJobResponse.body.id = UNDEF
    /\ res.ended
    /\ res.statusCode = 500
    /\ ~fileExists

\* C6: at most 120 upload-target polls are made; when 120 polls have returned
\* and none exposed both a URL and non-empty parameters, the loop is left, no
\* push, completion poll or fetch is ever made, and the response is the 500
\* naming the upload-URL failure, sent after the deletion of the staged file.
UploadTargetBudget ==
    /\ calls.uploadPoll <= 120
    /\ (currentInitialAttempt = 120 /\ uploadTask = NoTask) =>
        /\ calls.uploadPoll = 120
        /\ calls.push = 0 /\ calls.completionPoll = 0 /\ calls.fetch = 0
        /\ pc \in {"unlink", "returned"}
        /\ Responded =>
            /\ res.statusCode = 500
            /\ res.message = MsgUploadUrl
            /\ DeletedOnce
        /\ Terminated => res.ended

UploadTargetTimedOut ==
    /\ currentInitialAttempt = 120
    /\ calls.uploadPoll = 120
    /\ res.ended
    /\ res.statusCode = 500
    /\ ~fileExists

\* C7: when completion poll number k returns status error, polling stops
\* there: k completion polls have been made, no poll or fetch follows, and
\* the response is a 500 whose message carries the provider's message.
ErrorStatusStopsPolling ==
    (jobStatusResponse.hasData /\ jobStatusResponse.hasJob
        /\ jobStatusResponse.status = "error") =>
        /\ calls.completionPoll = currentOverallAttempt + 1
        /\ calls.completionPoll <= 90
        /\ calls.fetch = 0
        /\ pc \in {"unlink", "returned"}
        /\ Responded =>
            /\ res.statusCode = 500
            /\ res.message =
                 <<"Conversion service error: ", "CloudConvert Job ", jobId,
                   " failed: ",
                   IF jobStatusResponse.message \in {UNDEF, ""}
                   THEN "CloudConvert job failed with unknown error."
                   ELSE jobStatusResponse.message>>
            /\ DeletedOnce
        /\ Terminated => res.ended

ErrorStatusAtSecondPoll ==
    /\ jobStatusResponse.status = "error"
    /\ jobStatusResponse.message = "Invalid input file"
    /\ calls.completionPoll = 2
    /\ res.ended
    /\ res.message[5] = "Invalid input file"

\* C8: at most 90 completion polls are made; when 90 polls have returned
\* without status finished or error, whatever else they held, the response is
\* the 500 of the timeout, sent after the deletion of the staged file, and
\* no artifact fetch is made.
CompletionBudgetTimesOut ==
    /\ calls.completionPoll <= 90
    /\ currentOverallAttempt = 90 =>
        /\ calls.completionPoll = 90
        /\ calls.fetch = 0
        /\ pc \in {"unlink", "returned"}
        /\ Responded =>
            /\ res.statusCode = 500
            /\ res.message = MsgTimedOut
            /\ DeletedOnce

\* the file-name stems the names of OriginalNames have
ExpectedStem(name) ==
    CASE name = <<"r", ".", "d">> -> <<"r">>
      [] name = <<"a", ".", "t", ".", "g">> -> <<"a", ".", "t">>
      [] name = <<".", "e">> -> <<".", "e">>
      [] name = <<"n">> -> <<"n">>

\* the first file of the export task of the last completion response
ReportedFile == jobStatusResponse.tasks[2].files[1]

\* C9: once the artifact stream has ended, the response is a 200 with the
\* provider's MIME type (application/<outputFormat> when it has none), the
\* disposition attachment; filename="<stem>.<outputFormat>", and the artifact's
\* bytes as body; once the deletion that follows has settled, the staged file
\* has been deleted once.
HappyPathResponse ==
    stream.state = "ended" =>
        /\ res.statusCode = 200
        /\ res.headersSent /\ res.ended
        /\ res.contentType =
             IF ReportedFile.mime \in {UNDEF, ""}
             THEN <<"application/", req.outputFormat>>
             ELSE <<ReportedFile.mime>>
        /\ res.contentDisposition =
             <<"attachment; filename=", "\"">> \o ExpectedStem(req.originalname)
                 \o <<".", req.outputFormat, "\"">>
        /\ res.body = stream.data
        /\ res.message = <<>>
        /\ ~unlinkInFlight => DeletedOnce

HappyPathDone ==
    /\ stream.state = "ended"
    /\ Terminated
    /\ req.originalname = <<"a", ".", "t", ".", "g">>
    /\ Len(res.body) >= 2
    /\ ~fileExists

\* C10: provider calls are made in the order creation, upload-target polls,
\* one push, completion polls, one fetch: a poll needs the created job, the
\* push an upload task with URL and non-empty parameters, a completion poll
\* the push made, the fetch a finished job and a resolved export URL.
ProviderCallOrder ==
    [][/\ calls'.create # calls.create => calls = NoCalls
       /\ calls'.uploadPoll # calls.uploadPoll =>
            /\ calls.create = 1 /\ jobId \notin {UNDEF, ""}
            /\ calls.push = 0 /\ calls.completionPoll = 0 /\ calls.fetch = 0
       /\ calls'.push # calls.push =>
            /\ calls.create = 1 /\ calls.uploadPoll >= 1
            /\ uploadTask.name = "upload-file"
            /\ uploadTask.url \notin {UNDEF, ""}
            /\ uploadTask.parameters = ParamSome
            /\ calls.push = 0 /\ calls.completionPoll = 0 /\ calls.fetch = 0
       /\ calls'.completionPoll # calls.completionPoll =>
            /\ calls.push = 1 /\ pc = "completionPoll"
            /\ calls.fetch = 0
       /\ calls'.fetch # calls.fetch =>
            /\ calls.completionPoll >= 1
            /\ jobStatusResponse.status = "finished"
            /\ exportFile.url \notin {UNDEF, ""}
            /\ calls.fetch = 0
      ]_vars

AllCallsMade ==
    /\ calls.create = 1
    /\ calls.uploadPoll >= 2
    /\ calls.push = 1
    /\ calls.completionPoll >= 2
    /\ calls.fetch = 1

\* a provider call failed, or an exception was caught by the inner catch
ServiceErrorRaised ==
    \/ cont.message # <<>> /\ cont.message[1] = "Conversion service error: "
    \/ res.message # <<>> /\ res.message[1] = "Conversion service error: "

\* C11: a request makes at most one job creation, one push and one fetch, and
\* every status poll goes to the URL of the job id the creation returned; once
\* a provider call has failed the handler is at its exit, answers with a 500,
\* and makes no provider call any more.
OneJobNoRetry ==
    /\ [](/\ calls.create <= 1 /\ calls.push <= 1 /\ calls.fetch <= 1
          /\ polled \subseteq
               {<<"https://api.cloudconvert.com/v2/jobs/",
                  cloudConvertJobResponse.body.id>>}
          /\ cloudConvertJobResponse.body.id \in {UNDEF, ""} => polled = {}
          /\ ServiceErrorRaised =>
               /\ pc \in {"unlink", "returned"}
               /\ stream.state = "none"
               /\ Responded => res.statusCode = 500)
    /\ [][ServiceErrorRaised => calls' = calls /\ polled' = polled]_vars

PushFailedAfterPolls ==
    /\ calls.create = 1
    /\ calls.uploadPoll = 2
    /\ polled = {<<"https://api.cloudconvert.com/v2/jobs/", "job-1">>}
    /\ calls.push = 1
    /\ calls.completionPoll = 0
    /\ res.ended
    /\ res.message = <<"Conversion service error: ", "Network Error">>

\* C13: when the artifact stream has failed and the deletion has settled, the
\* staged file has been deleted once; a failure before the headers were sent
\* is answered by the 500 of the stream error, and after headers or body
\* bytes were sent nothing is written and no write is attempted on the
\* response (an attempt throws in the listener).
StreamErrorAnswer ==
    (stream.state = "errored" /\ ~unlinkInFlight) =>
        /\ DeletedOnce
        /\ res.body = <<>> =>
            /\ res.statusCode = 500
            /\ res.message = MsgStreamError
        /\ res.body # <<>> =>
            /\ res.statusCode = 200
            /\ res.message = <<>>
            /\ ~unhandled

\* C14: no exception escapes the handler, and a request in which an exception
\* was raised ends with a 500 after the deletion of the staged file.
NoExceptionEscapes ==
    /\ unhandled = FALSE
    /\ (ServiceErrorRaised /\ Terminated) =>
        /\ res.statusCode = 500
        /\ res.ended
        /\ DeletedOnce

\* the request ended without the artifact having been streamed to its end
NonSuccess == Terminated /\ stream.state # "ended"

\* the artifact stream failed after headers or body bytes had been sent
FailedAfterHeaders == stream.state = "errored" /\ res.body # <<>>

\* C17 as stated: every non-success outcome is a 400 or 500 with a JSON
\* message.
NonSuccessIsJsonError ==
    NonSuccess =>
        /\ res.statusCode \in {400, 500}
        /\ res.message # <<>>
        /\ res.ended

\* C17, amended: every non-success outcome other than a stream failure after
\* the headers were sent is a 400 or 500 with a JSON message and no artifact
\* bytes; and once such a response has been sent, the request makes no
\* provider call and writes nothing more to the response.
ErrorResponseIsJsonAndFinal ==
    /\ []((NonSuccess /\ ~FailedAfterHeaders) => res.message # <<>>)
    /\ [](res.message # <<>> =>
            /\ res.statusCode \in {400, 500}
            /\ res.ended
            /\ res.body = <<>>
            /\ stream.state \in {"none", "errored"})
    /\ [][res.message # <<>> => calls' = calls /\ res' = res]_vars

StreamErrorAnswered500 ==
    /\ stream.state = "errored"
    /\ Terminated
    /\ calls.fetch = 1
    /\ res.statusCode = 500
    /\ res.message = MsgStreamError
    /\ res.contentType = <<"application/pdf">>

\* the time the handler has slept before the polls it has made
SleptMs ==
    calls.uploadPoll * uploadPollDelay
        + calls.completionPoll * completionPollDelay

\* C20: while the relay is in one of its polling loops, the time it has spent
\* there is below the client's request timeout.
ClientOutlastsPolling ==
    pc \in {"uploadPoll", "completionPoll"} => SleptMs < clientTimeout

\* no step of the handler or of its listeners is left: no unlink is in
\* flight, the handler has returned (or hangs in the upload promise), and the
\* artifact stream is not flowing. A paused stream delivers nothing and does
\* not end; only a failure of the provider's connection could still reach a
\* listener.
NoStepLeft ==
    /\ ~unlinkInFlight
    /\ pc \in {"hung", "returned"}
    /\ stream.state # "flowing"

\* C12: when a request that staged a file has no step left to take, also
\* after the client has closed its connection, the staged file has been
\* removed by a settled deletion.
StagedFileRemovedOnEveryExit ==
    (req.hasFile /\ NoStepLeft) => unlinkCalls = 1

\* the staged file of run r is still to be read or deleted by it
InFlight(r) == handlers[r].pc \in {"create", "poll", "push", "wait", "unlink"}

\* C15: two requests that are in flight together never have the same staged
\* path.
StagedNamesDistinct ==
    \A r1, r2 \in RequestIds :
        (r1 # r2 /\ InFlight(r1) /\ InFlight(r2)) =>
            handlers[r1].path # handlers[r2].path

\* C16: two requests have different job ids, each polls its own job id only,
\* pushes the bytes it staged, finds its staged file in place until it
\* deletes it itself, and the directory is empty when all have ended.
RequestsIndependent ==
    /\ \A r1, r2 \in RequestIds :
        (r1 # r2 /\ handlers[r1].jobId # <<>>) =>
            handlers[r1].jobId # handlers[r2].jobId
    /\ \A r \in RequestIds :
        /\ handlers[r].polled \subseteq {handlers[r].jobId}
        /\ handlers[r].pushed \in {0, r}
        /\ handlers[r].pc \in {"create", "poll", "push"} =>
            /\ handlers[r].path \in DOMAIN uploadDir
            /\ uploadDir[handlers[r].path] = r
    /\ (\A r \in RequestIds : handlers[r].pc = "done") => DOMAIN uploadDir = {}

\* C18: a call of handleSubmit while no file is selected makes no axios.post,
\* sets the status message to 'Please select a file.' and changes nothing
\* else: the loading flag stays as it is, which is false whenever no
\* conversion is under way.
SubmitWithoutFileIsLocal ==
    [][(submits' # submits /\ ~selectedFile.selected) =>
          /\ posts' = posts
          /\ convert' = <<"Please select a file.">>
          /\ isLoading' = isLoading
          /\ submission.pc = "idle" => ~isLoading'
          /\ UNCHANGED <<selectedFile, downloadError, outputFormat, submission>>
      ]_vars

SubmittedWithoutFile ==
    /\ submits = 1
    /\ posts = 0
    /\ ~selectedFile.selected
    /\ convert = <<"Please select a file.">>
    /\ ~isLoading

\* the step that ends a handleSubmit whose post was rejected
FailedSubmitEnds ==
    /\ submission.pc \in {"posted", "reading"}
    /\ submission'.pc = "idle"
    /\ submission'.error # NoError

\* C19: a handleSubmit whose post was rejected ends (it does not reject or
\* hang: the loading flag is cleared), with the status message cleared and a
\* non-empty error message that tells the case: 'Error: <message>' or 'Error
\* occurred (Status: <status>) ...' when the server responded, the network
\* message when no response arrived, the client-side message when the
\* request was never sent.
FailureCasesDistinguished ==
    /\ [](submission.pc = "idle" => ~isLoading)
    /\ [][FailedSubmitEnds =>
            /\ convert' = <<>>
            /\ ~isLoading'
            /\ downloadError' # <<>>
            /\ LET e == submission'.error IN
               /\ e.hasResponse =>
                    /\ downloadError'[1] \in {"Error: ", "Error occurred (Status: "}
                    /\ (e.isBlob /\ e.isJson /\ e.isObject
                          /\ e.message \notin {UNDEF, ""}
                          /\ downloadError'[1] = "Error: ")
                         => downloadError'[2] = e.message
                    /\ downloadError'[1] = "Error occurred (Status: "
                         => downloadError'[2] = e.status
               /\ (~e.hasResponse /\ e.hasRequest) =>
                    downloadError' =
                       <<"Network error or server is unreachable. Please check your connection.">>
               /\ (~e.hasResponse /\ ~e.hasRequest) =>
                    downloadError' =
                       <<"An unexpected client-side error occurred: ", e.errorMessage>>
       ]_vars

ServerMessageShown ==
    /\ submission.pc = "idle"
    /\ submission.error.hasResponse
    /\ submission.error.status = "400"
    /\ downloadError = <<"Error: ", "No file uploaded.">>
    /\ convert = <<>>
    /\ ~isLoading

\* the response holds an upload-file task with a non-empty URL and a
\* non-empty set of parameters
ExposesUploadTarget(b) ==
    /\ b.hasData /\ b.hasJob /\ b.hasTasks
    /\ \E i \in 1..Len(b.tasks) :
        /\ b.tasks[i].name = "upload-file"
        /\ b.tasks[i].url \notin {UNDEF, ""}
        /\ b.tasks[i].parameters = "{key}"

\* C22: an upload-target poll that returns a task with both a URL and
\* non-empty parameters ends the loop with that task, without counting an
\* attempt; a poll that returns anything else counts one attempt and is
\* followed by another poll (or, at attempt 120, by the exit); and a push is
\* only made to a task that has both.
UploadTargetNeedsUrlAndParameters ==
    /\ [](calls.push > 0 =>
            /\ uploadTask.name = "upload-file"
            /\ uploadTask.url \notin {UNDEF, ""}
            /\ uploadTask.parameters = "{key}")
    /\ [][(calls'.uploadPoll # calls.uploadPoll
             /\ cloudConvertApiError' = cloudConvertApiError) =>
            IF ExposesUploadTarget(currentJobStatusResponse')
            THEN /\ pc' = "push"
                 /\ uploadTask' \in
                      {currentJobStatusResponse'.tasks[i] :
                         i \in 1..Len(currentJobStatusResponse'.tasks)}
                 /\ currentInitialAttempt' = currentInitialAttempt
            ELSE /\ uploadTask' = NoTask
                 /\ currentInitialAttempt' = currentInitialAttempt + 1
                 /\ calls'.push = 0
                 /\ IF currentInitialAttempt' < 120
                    THEN pc' = "uploadPoll"
                    ELSE pc' = "unlink"
         ]_vars

UploadTargetFoundAfterIncompleteTask ==
    /\ currentInitialAttempt = 3
    /\ calls.uploadPoll = 4
    /\ ExposesUploadTarget(currentJobStatusResponse)
    /\ calls.push = 1
    /\ pc = "completionPoll"

\* the last completion poll returned a job, with this status
LastStatusIs(status) ==
    /\ jobStatusResponse.hasData
    /\ jobStatusResponse.hasJob
    /\ jobStatusResponse.status = status

\* C23: when completion poll number k (up to k = 90) returns status
\* finished, the loop is left: k polls have been made in all, and the export
\* file the relay goes on with is one of that response; a poll that returns
\* a status other than finished or error before the 90th attempt is followed
\* by another poll.
FinishedStopsPolling ==
    /\ LastStatusIs("finished") =>
        /\ calls.completionPoll = currentOverallAttempt + 1
        /\ calls.completionPoll <= 90
        /\ pc # "completionPoll"
        /\ calls.fetch > 0 =>
            /\ jobStatusResponse.hasTasks
            /\ \E i \in 1..Len(jobStatusResponse.tasks) :
                /\ jobStatusResponse.tasks[i].name = "export-file"
                /\ jobStatusResponse.tasks[i].files # <<>>
                /\ exportFile = jobStatusResponse.tasks[i].files[1]
    /\ (/\ LastStatusIs("processing")
        /\ cloudConvertApiError = NoApiError
        /\ currentOverallAttempt < 90) =>
        /\ pc = "completionPoll"
        /\ calls.completionPoll = currentOverallAttempt

FinishedAtLastAttempt ==
    /\ LastStatusIs("finished")
    /\ calls.completionPoll = 90
    /\ currentOverallAttempt = 89
    /\ stream.state = "ended"
    /\ res.ended

\* C24: an error response to a request that staged a file is sent only
\* after the deletion of the staged file has been attempted and has settled.
DeletionSettledBeforeErrorResponse ==
    (req.hasFile /\ res.message # <<>>) =>
        /\ unlinkCalls = 1
        /\ ~unlinkInFlight

\* C25: the step in which the deletion settles answers as the code after
\* the await says, whether the deletion failed or not: the status and message
\* sent are those fixed before the deletion, a deletion nobody awaits answers
\* nothing, and no exception comes from the deletion (the only throw is the
\* write to a response whose headers were sent, deletion failed or not).
DeletionFailureOnlyLogged ==
    [][(unlinkInFlight /\ ~unlinkInFlight') =>
          /\ cont.kind = "respond" =>
               /\ res'.statusCode = cont.status
               /\ res'.message = cont.message
               /\ res'.ended
          /\ (cont.kind = "streamError" /\ ~res.headersSent) =>
               /\ res'.statusCode = 500
               /\ res'.message = MsgStreamError
          /\ cont.kind \in {"none", "log"} => res' = res
          /\ pc' \in {"returned", "hung"}
          /\ unhandled' =>
               \/ unhandled
               \/ cont.kind = "streamError" /\ res.headersSent
      ]_vars

TimedOutAnsweredThoughDeletionFailed ==
    /\ unlinkError
    /\ fileExists
    /\ currentOverallAttempt = 90
    /\ res.ended
    /\ res.statusCode = 500
    /\ res.message = MsgTimedOut

HasArtifact(b) ==
    \E i \in 1..Len(b.tasks) :
        /\ b.tasks[i].name = "export-file"
        /\ b.tasks[i].files # <<>>
        /\ b.tasks[i].files[1].url \notin {UNDEF, ""}

\* C27: when the job is finished and its response names no export-file task
\* with a first file that has a URL, no fetch is made and the response is a
\* 500 sent after the deletion of the staged file.
NoArtifactNoFetch ==
    (LastStatusIs("finished") /\ ~HasArtifact(jobStatusResponse)) =>
        /\ calls.fetch = 0
        /\ pc \in {"unlink", "returned"}
        /\ stream.state = "none"
        /\ Responded =>
            /\ res.statusCode = 500
            /\ DeletedOnce
        /\ Terminated => res.ended

FinishedWithoutUrlAnswered ==
    /\ LastStatusIs("finished")
    /\ Len(jobStatusResponse.tasks) = 2
    /\ jobStatusResponse.tasks[2].files # <<>>
    /\ jobStatusResponse.tasks[2].files[1].url = UNDEF
    /\ res.ended
    /\ res.message = MsgNoExportUrl
    /\ ~fileExists

HandlerSettles ==
    (res.ended /\ ~unlinkInFlight) => pc = "returned"

\* C28: a disconnection of the client during a polling loop does not stop
\* the loop: the step of the disconnection leaves the handler's position,
\* its counters and its calls as they are, after it the next status poll is
\* still to be made, and the loop is left only by a step that makes a poll
\* and meets a normal exit (upload target found, finished, error, budget
\* exhausted) or a rejected call.
DisconnectDoesNotStopPolling ==
    /\ [](~clientConnected =>
            /\ pc = "uploadPoll" => ENABLED UploadTargetPoll
            /\ pc = "completionPoll" => ENABLED CompletionPoll)
    /\ [][(clientConnected /\ ~clientConnected') =>
            /\ pc' = pc
            /\ calls' = calls
            /\ currentInitialAttempt' = currentInitialAttempt
            /\ currentOverallAttempt' = currentOverallAttempt
            /\ unlinkCalls' = unlinkCalls
            /\ res' = res
         ]_vars
    /\ [][(~clientConnected /\ pc = "uploadPoll" /\ pc' # "uploadPoll") =>
            /\ calls'.uploadPoll = calls.uploadPoll + 1
            /\ \/ pc' = "push" /\ ExposesUploadTarget(currentJobStatusResponse')
               \/ currentInitialAttempt' = initialPollAttempts
               \/ cloudConvertApiError' # NoApiError
         ]_vars
    /\ [][(~clientConnected /\ pc = "completionPoll" /\ pc' # "completionPoll") =>
            /\ calls'.completionPoll = calls.completionPoll + 1
            /\ \/ /\ jobStatusResponse'.hasData
                  /\ jobStatusResponse'.hasJob
                  /\ jobStatusResponse'.status \in {"finished", "error"}
               \/ currentOverallAttempt' = maxOverallPollAttempts
               \/ cloudConvertApiError' # NoApiError
         ]_vars

DisconnectedPolledToBudget ==
    /\ ~clientConnected
    /\ currentInitialAttempt > 0
    /\ currentOverallAttempt = maxOverallPollAttempts
    /\ calls.completionPoll = maxOverallPollAttempts
    /\ pc = "returned"
    /\ res.ended

\* C21: every download the client has started is named by the stem of the
\* submitted file's name, a dot and the output format that was submitted.
DownloadNamedByStem ==
    \A i \in 1..Len(downloads) :
        downloads[i].download =
            ExpectedStem(downloads[i].file) \o <<".", downloads[i].outputFormat>>

\* C31: when upload.single reports an error, the response is the 400 'File
\* upload failed.' and stays it, the handler goes no further (no validation
\* answer, no provider call, no stream), and the deletion of the staged file
\* is started exactly when the request carries one.
UploadErrorAnswered400 ==
    req.err =>
        /\ pc = "hung"
        /\ res.statusCode = 400
        /\ res.message = MsgUploadFailed
        /\ res.ended
        /\ calls = NoCalls
        /\ stream = NoStream
        /\ cont.kind = "none"
        /\ unlinkCalls = IF req.hasFile THEN 1 ELSE 0
        /\ ~req.hasFile => ~unlinkInFlight

UploadErrorWithStagedFile ==
    /\ req.err
    /\ req.hasFile
    /\ unlinkCalls = 1
    /\ ~unlinkInFlight
    /\ ~fileExists
    /\ res.message = MsgUploadFailed

\* C34: the validation reports in the order file, outputFormat, credential:
\* without a file the answer is the 400 'No file uploaded.' whatever the
\* outputFormat and the credential are, and with a file but no outputFormat
\* it is the 400 'Output format is required.' also when the credential is
\* missing.
ValidationPrecedence ==
    (Responded /\ ~req.err) =>
        /\ ~req.hasFile =>
            /\ res.statusCode = 400
            /\ res.message = MsgNoFile
        /\ (req.hasFile /\ req.outputFormat \in {UNDEF, ""}) =>
            /\ res.statusCode = 400
            /\ res.message = MsgNoFormat
        /\ res.message = MsgNoKey =>
            /\ req.hasFile
            /\ req.outputFormat \notin {UNDEF, ""}

NoFormatReportedBeforeNoKey ==
    /\ ~req.err
    /\ req.hasFile
    /\ req.outputFormat = UNDEF
    /\ env.CLOUDCONVERT_API_KEY \in {UNDEF, ""}
    /\ res.ended
    /\ res.statusCode = 400
    /\ res.message = MsgNoFormat

\* C33: every job creation and every status poll made carries the bearer
\* credential of the environment, which is never absent when a call is made;
\* the file push and the artifact fetch carry no Authorization header; and
\* every call made is one of these.
CredentialOnlyToProviderApi ==
    /\ \A m \in sent :
        /\ m.call \in {"create", "uploadPoll", "completionPoll"} =>
            /\ m.headers.Authorization = <<"Bearer ", env.CLOUDCONVERT_API_KEY>>
            /\ env.CLOUDCONVERT_API_KEY \notin {UNDEF, ""}
        /\ m.call \in {"push", "fetch"} => m.headers.Authorization = <<>>
    /\ \A k \in DOMAIN calls : calls[k] > 0 <=> \E m \in sent : m.call = k
    /\ calls # NoCalls => env.CLOUDCONVERT_API_KEY \notin {UNDEF, ""}

AllCallsSentWithTheirHeaders ==
    /\ {m.call : m \in sent} =
           {"create", "uploadPoll", "push", "completionPoll", "fetch"}
    /\ Cardinality(sent) = 5
    /\ res.ended
    /\ res.statusCode = 200

\* C35: isLoading is true exactly while a handleSubmit that posted a file
\* has not yet processed its outcome, the step in which handleSubmit settles
\* leaves it false on every path, and at most one axios.post is in flight at
\* any time, which is the one of the running handleSubmit.
LoadingFlagGuardsSubmission ==
    /\ [](/\ isLoading <=> submission.pc \in {"posted", "reading"}
          /\ inFlight = IF submission.pc = "posted" THEN 1 ELSE 0
          /\ inFlight <= 1)
    /\ [][(submission.pc # "idle" /\ submission'.pc = "idle") => ~isLoading']_vars
    /\ [][posts' # posts => (~isLoading /\ isLoading' /\ inFlight = 0)]_vars

SecondConversionInFlight ==
    /\ posts = 2
    /\ inFlight = 1
    /\ isLoading
    /\ submission.pc = "posted"
    /\ ButtonDisabled

\* the relay in which every await resumes: a provider call returns or fails,
\* the artifact stream delivers, ends or fails, a deletion settles
SpecFair == Init /\ [][Next]_vars /\ WF_vars(Next)

\* under SpecFair every request comes to a state with nothing left to run
RequestTerminates == <>Terminated

\* C32: a request makes at most 1 job creation, 120 upload-target polls,
\* 1 file push, 90 completion polls and 1 artifact fetch, and when nothing
\* of it is left to run (every call has returned or failed, the stream has
\* ended or failed, the deletion has settled) its response has been sent to
\* its end.
EveryRequestAnswered ==
    /\ calls.create <= 1
    /\ calls.uploadPoll <= initialPollAttempts
    /\ calls.push <= 1
    /\ calls.completionPoll <= maxOverallPollAttempts
    /\ calls.fetch <= 1
    /\ Terminated => res.ended

====
